---- MODULE Spec2Model ----
(***************************************************************************)
(* Model of mindformers/tools/dataset_preprocess/pangualpha/               *)
(* pretrain_data_process.py: the wikitext / lambada / openwebtext to       *)
(* mindrecord conversion pipeline.                                         *)
(*                                                                         *)
(* A text is a sequence of characters; a character is a one-element string *)
(* ("ldquo", "rdquo" and "deg" stand for the curly double quotes and       *)
(* chr(176)).  A token-id stream is a sequence of naturals.                *)
(***************************************************************************)
EXTENDS Integers, Sequences, FiniteSets, TLC

VARIABLES
    string,         \* clean_wikitext: the text handed to the normalizer
    cleaned,        \* clean_wikitext: results of successive applications
    args,           \* the parsed command line (argparse namespace)
    files,          \* the input files the run reads (contents, glob order)
    result,         \* driver run: what a tokenize_* generator produced
    pc,             \* __main__: where the parent process is
    file_names,     \* __main__: the shard file names of the openwebtext branch
    process_list,   \* __main__: dict file name -> Process, in insertion order
    polled,         \* __main__: entries of process_list already waited for
    proc,           \* the spawned task_unit processes, in start order
    writers,        \* the FileWriter of the parent (0) and of each process
    main_iter,      \* __main__: Windows the wiki / lambada generator still yields
    transforms_count,   \* __main__: records written by the wiki / lambada loop
    summary         \* stdout: the "Transform finished" line, once printed

inputVars == <<args, files>>

cleanVars == <<string, cleaned>>

mainVars == <<pc, file_names, process_list, polled, proc, writers, main_iter,
              transforms_count, summary>>

vars == <<string, cleaned, args, files, result, pc, file_names, process_list,
          polled, proc, writers, main_iter, transforms_count, summary>>

\* the variables of the whole program hold these values in a specification
\* that only exercises the normalizer, the drivers or the file naming
MainIdle ==
    /\ pc = "idle"
    /\ file_names = <<>>
    /\ process_list = <<>>
    /\ polled = 0
    /\ proc = <<>>
    /\ writers = <<>>
    /\ main_iter = <<>>
    /\ transforms_count = 0
    /\ summary = <<>>

(***************************************************************************)
(* Bounds of the model.                                                    *)
(***************************************************************************)
MaxStrLen == 3          \* longest enumerated text handed to clean_wikitext
MaxFileLen == 3         \* longest enumerated wiki / openwebtext file, in characters
MaxLines == 2           \* most lines of a lambada file
MaxFiles == 2           \* most files the openwebtext glob yields
MaxSeqLength == 3       \* largest --seq_length tried
MaxPartition == 12      \* largest --file_partition whose file names are computed
MaxWorkers == 2         \* largest --file_partition whose processes are run
MaxMainFiles == 2       \* most input files of a whole openwebtext run
MaxBatches == 2         \* most full write batches of a batch-loop run

(***************************************************************************)
(* Python str / re primitives used by the program.                         *)
(***************************************************************************)
Whitespace == {" ", "\n"}

Digits == {"0", "1", "2", "3", "4", "5", "6", "7", "8", "9"}

\* s[i:i+len(pat)] == pat
IsAt(s, i, pat) ==
    /\ i + Len(pat) - 1 <= Len(s)
    /\ \A k \in 1..Len(pat) : s[i + k - 1] = pat[k]

RECURSIVE ReplaceFrom(_, _, _, _)
ReplaceFrom(s, old, new, i) ==
    IF i > Len(s) THEN <<>>
    ELSE IF IsAt(s, i, old)
         THEN new \o ReplaceFrom(s, old, new, i + Len(old))
         ELSE <<s[i]>> \o ReplaceFrom(s, old, new, i + 1)

\* str.replace(old, new): every non-overlapping occurrence, left to right
replace(s, old, new) == ReplaceFrom(s, old, new, 1)

RECURSIVE LStrip(_, _)
LStrip(s, chars) ==
    IF s # <<>> /\ Head(s) \in chars THEN LStrip(Tail(s), chars) ELSE s

RECURSIVE RStrip(_, _)
RStrip(s, chars) ==
    IF s # <<>> /\ s[Len(s)] \in chars
    THEN RStrip(SubSeq(s, 1, Len(s) - 1), chars) ELSE s

\* str.strip() / str.strip(chars)
strip(s, chars) == RStrip(LStrip(s, chars), chars)

\* str.startswith(c) for a one-character prefix
startswith(s, c) == s # <<>> /\ Head(s) = c

\* index of the first occurrence of character c at or after position i, 0 if none
RECURSIVE FindChar(_, _, _)
FindChar(s, c, i) ==
    IF i > Len(s) THEN 0
    ELSE IF s[i] = c THEN i ELSE FindChar(s, c, i + 1)

\* re.sub(r"O\s*([^C]*?)\s*C", r"O\1C", s): every span from an opening
\* character to the next closing character loses the whitespace just inside it
RECURSIVE SubPairFrom(_, _, _, _)
SubPairFrom(s, open, close, i) ==
    IF i > Len(s) THEN <<>>
    ELSE IF s[i] = open /\ FindChar(s, close, i + 1) # 0
         THEN LET j == FindChar(s, close, i + 1)
              IN  <<open>> \o strip(SubSeq(s, i + 1, j - 1), Whitespace)
                           \o <<close>> \o SubPairFrom(s, open, close, j + 1)
         ELSE <<s[i]>> \o SubPairFrom(s, open, close, i + 1)

SubPair(s, open, close) == SubPairFrom(s, open, close, 1)

\* re.sub(r"/' [0-9]/", r"/'[0-9]/", s): the pattern is the literal text
\* /' d/ for a digit d, the replacement is the literal text /'[0-9]/
RECURSIVE SubContractionFrom(_, _)
SubContractionFrom(s, i) ==
    IF i > Len(s) THEN <<>>
    ELSE IF /\ i + 4 <= Len(s)
            /\ IsAt(s, i, <<"/", "'", " ">>)
            /\ s[i + 3] \in Digits
            /\ s[i + 4] = "/"
         THEN <<"/", "'", "[", "0", "-", "9", "]", "/">> \o SubContractionFrom(s, i + 5)
         ELSE <<s[i]>> \o SubContractionFrom(s, i + 1)

SubContraction(s) == SubContractionFrom(s, 1)

(***************************************************************************)
(* clean_wikitext: the rules in source order.                              *)
(***************************************************************************)
CleanContractions(s) ==
    SubContraction(replace(s, <<"s", " ", "'">>, <<"s", "'">>))

CleanSeparators(s) ==
    LET a == replace(s, <<" ", "@", "-", "@", " ">>, <<"-">>)
        b == replace(a, <<" ", "@", ",", "@", " ">>, <<",">>)
    IN  replace(b, <<" ", "@", ".", "@", " ">>, <<".">>)

CleanPunctuation(s) ==
    LET a == replace(s, <<" ", ":", " ">>, <<":", " ">>)
        b == replace(a, <<" ", ";", " ">>, <<";", " ">>)
        c == replace(b, <<" ", ".", " ">>, <<".", " ">>)
        d == replace(c, <<" ", "!", " ">>, <<"!", " ">>)
        e == replace(d, <<" ", "?", " ">>, <<"?", " ">>)
    IN  replace(e, <<" ", ",", " ">>, <<",", " ">>)

CleanBrackets(s) ==
    LET a == SubPair(s, "(", ")")
        b == SubPair(a, "[", "]")
        c == SubPair(b, "{", "}")
        d == SubPair(c, "\"", "\"")
    IN  SubPair(d, "'", "'")

\* the heading rules without the last one
CleanHeadingsNoPairRule(s) ==
    LET a == replace(s, <<"=", " ", "=", " ", "=", " ", "=">>, <<"=", "=", "=", "=">>)
    IN  replace(a, <<"=", " ", "=", " ", "=">>, <<"=", "=", "=">>)

CleanHeadings(s) ==
    LET a == replace(s, <<"=", " ", "=", " ", "=", " ", "=">>, <<"=", "=", "=", "=">>)
        b == replace(a, <<"=", " ", "=", " ", "=">>, <<"=", "=", "=">>)
    IN  replace(b, <<"=", " ", "=">>, <<"=", "=">>)

CleanMisc(s) ==
    LET a == replace(s, <<" ", "deg", " ">>, <<"deg">>)
        b == replace(a, <<" ", "\n">>, <<"\n">>)
        c == replace(b, <<"\n", " ">>, <<"\n">>)
        d == replace(c, <<" ", "N", " ">>, <<" ", "1", " ">>)
    IN  replace(d, <<" ", "'", "s">>, <<"'", "s">>)

clean_wikitext(s) ==
    CleanMisc(CleanHeadings(CleanBrackets(CleanPunctuation(
        CleanSeparators(CleanContractions(s))))))

(***************************************************************************)
(* Tokenizer adapter (JIEBATokenizer).  jieba and sentencepiece are        *)
(* libraries outside the program: segmentation is taken to yield one       *)
(* token per character and the encoder one id per token.                   *)
(***************************************************************************)
\* self.translator = str.maketrans(" \n", "▂▃")
translate(c) == IF c = " " THEN "u2582" ELSE IF c = "\n" THEN "u2583" ELSE c

tokenize(text) == [i \in 1..Len(text) |-> translate(text[i])]

\* the vocabulary of the sentencepiece model; a piece outside it encodes to 0
Pieces == <<"<eot>", "u2582", "u2583", "a", "=", "H", "e", "l", "o", ".", "\"">>

PieceId(t) ==
    IF \E i \in 1..Len(Pieces) : Pieces[i] = t
    THEN 2 + (CHOOSE i \in 1..Len(Pieces) : Pieces[i] = t)
    ELSE 0

convert_tokens_to_ids(tokens) == [i \in 1..Len(tokens) |-> PieceId(tokens[i])]

(***************************************************************************)
(* Windowing: chunks and the sample loop shared by the three drivers.      *)
(***************************************************************************)
RECURSIVE SplitFrom(_, _, _, _)
SplitFrom(s, sep, i, cur) ==
    IF i > Len(s) THEN <<cur>>
    ELSE IF IsAt(s, i, sep)
         THEN <<cur>> \o SplitFrom(s, sep, i + Len(sep), <<>>)
         ELSE SplitFrom(s, sep, i + 1, Append(cur, s[i]))

\* str.split(sep)
split(s, sep) == SplitFrom(s, sep, 1, <<>>)

Min(a, b) == IF a <= b THEN a ELSE b

\* chunks(lst, n): lst[i:i + n] for i in range(0, len(lst), n)
chunks(lst, n) ==
    [k \in 1..((Len(lst) + n - 1) \div n) |->
        SubSeq(lst, (k - 1) * n + 1, Min(k * n, Len(lst)))]

\* the sample loop without the length test
RECURSIVE EmitSamplesNoLengthCheck(_, _)
EmitSamplesNoLengthCheck(cs, seq_length) ==
    IF cs = <<>> THEN <<>>
    ELSE <<[input_ids |-> Head(cs)]>> \o EmitSamplesNoLengthCheck(Tail(cs), seq_length)

\* for chunk in chunks(content, seq_length):
\*     if len(chunk) == seq_length: sample['input_ids'] = chunk; yield sample
RECURSIVE EmitSamples(_, _)
EmitSamples(cs, seq_length) ==
    IF cs = <<>> THEN <<>>
    ELSE (IF Len(Head(cs)) = seq_length THEN <<[input_ids |-> Head(cs)]>> ELSE <<>>)
         \o EmitSamples(Tail(cs), seq_length)

Samples(content, seq_length) == EmitSamples(chunks(content, seq_length), seq_length)

\* content += tokenizer.convert_tokens_to_ids(tokenizer.tokenize(para)) + [eot]
Ids(para) == convert_tokens_to_ids(tokenize(para))

RECURSIVE Flatten(_)
Flatten(ss) == IF ss = <<>> THEN <<>> ELSE Head(ss) \o Flatten(Tail(ss))

(***************************************************************************)
(* The three dataset-type drivers.  Each yields the record                 *)
(*   documents: the Documents of each file read, in order                  *)
(*   streams:   the token-id stream (content) accumulated for each file    *)
(*   samples:   the Windows yielded, in order                              *)
(***************************************************************************)
ParagraphBreak == <<"\n", "\n">>

\* openwebtext: one file's content list
RECURSIVE OwtContent(_, _)
OwtContent(paras, eot) ==
    IF paras = <<>> THEN <<>>
    ELSE (IF Head(paras) # <<>> THEN Ids(Head(paras)) \o <<eot>> ELSE <<>>)
         \o OwtContent(Tail(paras), eot)

\* os.path.getsize(file_path) == 0: continue
RECURSIVE NonEmptyFiles(_)
NonEmptyFiles(fs) ==
    IF fs = <<>> THEN <<>>
    ELSE (IF Len(Head(fs)) = 0 THEN <<>> ELSE <<Head(fs)>>) \o NonEmptyFiles(Tail(fs))

\* the Windows one file contributes (none when its size is 0)
OwtFileSamples(file, seq_length, eot) ==
    IF Len(file) = 0 THEN <<>>
    ELSE Samples(OwtContent(split(file, ParagraphBreak), eot), seq_length)

tokenize_openwebtext(iterator, seq_length, eot) ==
    LET read == NonEmptyFiles(iterator)
        docs == [k \in 1..Len(read) |-> split(read[k], ParagraphBreak)]
        strs == [k \in 1..Len(read) |-> OwtContent(docs[k], eot)]
    IN  [documents |-> docs,
         streams   |-> strs,
         samples   |-> Flatten([k \in 1..Len(iterator) |->
                                   OwtFileSamples(iterator[k], seq_length, eot)])]

\* wiki: paragraphs of the cleaned file; headings are not Documents
RECURSIVE WikiDocuments(_)
WikiDocuments(paras) ==
    IF paras = <<>> THEN <<>>
    ELSE (IF startswith(strip(Head(paras), Whitespace), "=") THEN <<>> ELSE <<Head(paras)>>)
         \o WikiDocuments(Tail(paras))

RECURSIVE WikiContent(_, _)
WikiContent(paras, eot) ==
    IF paras = <<>> THEN <<>>
    ELSE (IF Head(paras) # <<>> /\ ~startswith(strip(Head(paras), Whitespace), "=")
          THEN Ids(Head(paras)) \o <<eot>> ELSE <<>>)
         \o WikiContent(Tail(paras), eot)

tokenize_wiki(file, seq_length, eot) ==
    LET paras == split(clean_wikitext(file), ParagraphBreak)
        cont  == WikiContent(paras, eot)
    IN  [documents |-> <<WikiDocuments(paras)>>,
         streams   |-> <<cont>>,
         samples   |-> Samples(cont, seq_length)]

\* the same chain without the final .strip(".")
LambadaParaNoPeriodStrip(line) ==
    strip(replace(replace(line.text, <<"ldquo">>, <<"\"">>), <<"rdquo">>, <<"\"">>),
          Whitespace)

\* lambada: json.loads(line)['text'].replace(ldquo, '"').replace(rdquo, '"')
\*          .strip().strip(".")
LambadaPara(line) ==
    strip(strip(replace(replace(line.text, <<"ldquo">>, <<"\"">>), <<"rdquo">>, <<"\"">>),
                Whitespace),
          {"."})

RECURSIVE LambadaContent(_, _)
LambadaContent(paras, eot) ==
    IF paras = <<>> THEN <<>>
    ELSE Ids(Head(paras)) \o <<eot>> \o LambadaContent(Tail(paras), eot)

tokenize_lambada(file, seq_length, eot) ==
    LET paras == [k \in 1..Len(file) |-> LambadaPara(file[k])]
        cont  == LambadaContent(paras, eot)
    IN  [documents |-> <<paras>>,
         streams   |-> <<cont>>,
         samples   |-> Samples(cont, seq_length)]

(***************************************************************************)
(* Texts handed to clean_wikitext: every text of at most MaxStrLen         *)
(* characters over WikiAlphabet, and a few longer wiki markup samples.     *)
(***************************************************************************)
WikiAlphabet == {" ", "\n", "s", "N", "=", ":", "'", "(", ")"}

TitleHeading == <<"=", " ", "=", " ", "T", "i", "t", "l", "e", " ", "=", " ", "=">>

TitleCleaned == <<"=", "=", " ", "T", "i", "t", "l", "e", " ", "=", "=">>

WikiSamples ==
    { TitleHeading,
      <<"/", "'", " ", "5", "/">>,
      <<" ", ":", " ", ":", " ">>,
      <<"1", " ", "@", ",", "@", " ", "5", " ", "@", ".", "@", " ", "5">>,
      <<"a", " ", "@", "-", "@", " ", "b", " ", ";", " ", "c", " ", "!", " ", "d">>,
      <<"a", " ", ".", " ", "b", " ", "?", " ", "c", " ", ",", " ", "d">>,
      <<"[", " ", "a", " ", "]", "{", " ", "b", " ", "}", "\"", " ", "c", " ", "\"">>,
      <<"5", " ", "deg", " ", "=", " ", "=", " ", "=", " ", "=", " ", "=", " ", "=">>,
      <<"s", " ", "'", " ", "N", " ", "'", "s", " ", "N", " ", "N", " ">> }

RECURSIVE StringsUpTo(_, _)
StringsUpTo(alphabet, n) ==
    IF n = 0 THEN { <<>> }
    ELSE LET shorter == StringsUpTo(alphabet, n - 1)
         IN  shorter \cup { Append(s, c) : s \in shorter, c \in alphabet }

WikiTexts == StringsUpTo(WikiAlphabet, MaxStrLen) \cup WikiSamples

NoArgs == [dataset_type |-> "none"]

InitClean ==
    /\ string \in WikiTexts
    /\ cleaned = <<>>
    /\ args = NoArgs
    /\ files = <<>>
    /\ result = <<>>
    /\ MainIdle

\* clean_wikitext(string)
CleanOnce ==
    /\ cleaned = <<>>
    /\ cleaned' = <<clean_wikitext(string)>>
    /\ UNCHANGED <<string, args, files, result, mainVars>>

\* clean_wikitext applied to its own output
CleanAgain ==
    /\ Len(cleaned) = 1
    /\ cleaned' = Append(cleaned, clean_wikitext(cleaned[1]))
    /\ UNCHANGED <<string, args, files, result, mainVars>>

NextClean == CleanOnce \/ CleanAgain

SpecClean == InitClean /\ [][NextClean]_vars

\* C8 (as stated): clean_wikitext is idempotent, a second application of the
\* normalizer returns what the first one returned, for every text.
C8_Idempotent == Len(cleaned) = 2 => cleaned[2] = cleaned[1]

\* C8 (amended): "= = Title = =" is cleaned to "== Title ==" and a second
\* application leaves that unchanged; on a text without "/" one application
\* never lengthens the text.
C8_HeadingStable ==
    /\ (Len(cleaned) >= 1 /\ string = TitleHeading) => cleaned[1] = TitleCleaned
    /\ (Len(cleaned) = 2 /\ string = TitleHeading) => cleaned[2] = cleaned[1]
    /\ (Len(cleaned) >= 1 /\ \A i \in 1..Len(string) : string[i] # "/")
            => Len(cleaned[1]) <= Len(string)

C8_Witness ==
    /\ string = TitleHeading
    /\ Len(cleaned) = 2
    /\ cleaned[2] = TitleCleaned

(***************************************************************************)
(* Driver runs: one tokenize_* generator consumed to exhaustion.           *)
(***************************************************************************)
DatasetTypes == {"wiki", "lambada", "openwebtext"}

DefaultEot == 3

HelloQuoted == <<"ldquo", "H", "e", "l", "l", "o", ".", "rdquo">>

HelloPeriod == <<"H", "e", "l", "l", "o", ".">>

WikiFiles == StringsUpTo({"a", " ", "\n", "="}, MaxFileLen)

LambadaTexts == StringsUpTo({"H", ".", "ldquo", " "}, 2) \cup {HelloQuoted, HelloPeriod}

LambadaLines == [text : LambadaTexts]

OwtFiles == StringsUpTo({"a", "\n"}, MaxFileLen)

RECURSIVE SeqsUpTo(_, _)
SeqsUpTo(S, n) ==
    IF n = 0 THEN { <<>> }
    ELSE LET shorter == SeqsUpTo(S, n - 1)
         IN  shorter \cup { Append(q, x) : q \in shorter, x \in S }

DriverInputs(dataset_type) ==
    CASE dataset_type = "wiki"        -> { <<f>> : f \in WikiFiles }
      [] dataset_type = "lambada"     -> { <<f>> : f \in SeqsUpTo(LambadaLines, MaxLines) }
      [] dataset_type = "openwebtext" -> SeqsUpTo(OwtFiles, MaxFiles)

InitDriver ==
    /\ args \in [dataset_type : DatasetTypes, seq_length : 1..MaxSeqLength,
                 eot : {DefaultEot}]
    /\ files \in DriverInputs(args.dataset_type)
    /\ result = <<>>
    /\ string = <<>>
    /\ cleaned = <<>>
    /\ MainIdle

RunWiki ==
    /\ args.dataset_type = "wiki"
    /\ result = <<>>
    /\ result' = tokenize_wiki(files[1], args.seq_length, args.eot)
    /\ UNCHANGED <<string, cleaned, args, files, mainVars>>

RunLambada ==
    /\ args.dataset_type = "lambada"
    /\ result = <<>>
    /\ result' = tokenize_lambada(files[1], args.seq_length, args.eot)
    /\ UNCHANGED <<string, cleaned, args, files, mainVars>>

RunOpenwebtext ==
    /\ args.dataset_type = "openwebtext"
    /\ result = <<>>
    /\ result' = tokenize_openwebtext(files, args.seq_length, args.eot)
    /\ UNCHANGED <<string, cleaned, args, files, mainVars>>

NextDriver == RunWiki \/ RunLambada \/ RunOpenwebtext

SpecDriver == InitDriver /\ [][NextDriver]_vars

\* the consecutive non-overlapping slices of a stream: floor(L / S) of them
Slices(stream, S) ==
    [j \in 1..(Len(stream) \div S) |->
        [input_ids |-> SubSeq(stream, (j - 1) * S + 1, j * S)]]

\* C1: each driver emits, for every accumulated stream of length L, exactly
\* floor(L / S) Windows of exactly S ids, the consecutive slices of the
\* stream in order; the last L mod S ids are dropped.
C1_Windows ==
    result # <<>> =>
        /\ result.samples =
              Flatten([k \in 1..Len(result.streams) |->
                          Slices(result.streams[k], args.seq_length)])
        /\ \A i \in 1..Len(result.samples) :
              Len(result.samples[i].input_ids) = args.seq_length

C1_Witness ==
    /\ result # <<>>
    /\ args.dataset_type = "openwebtext"
    /\ Len(result.streams) = 2
    /\ \A k \in 1..2 : /\ Len(result.streams[k]) >= args.seq_length
                       /\ Len(result.streams[k]) % args.seq_length # 0
    /\ Len(result.samples) >= 2

\* ids(D) + [eot] for every non-empty Document D, nothing for an empty one
RECURSIVE ExpectedStream(_, _)
ExpectedStream(docs, eot) ==
    IF docs = <<>> THEN <<>>
    ELSE (IF Len(Head(docs)) = 0 THEN <<>> ELSE Ids(Head(docs)) \o <<eot>>)
         \o ExpectedStream(Tail(docs), eot)

\* C2 (as stated): in every driver the stream is, in Document order, ids(D)
\* followed by one end-marker for each non-empty Document D, and an empty
\* Document adds nothing, not even an end-marker.
C2_Stream ==
    result # <<>> =>
        \A k \in 1..Len(result.streams) :
            result.streams[k] = ExpectedStream(result.documents[k], args.eot)

HasChar(s, c) == \E i \in 1..Len(s) : s[i] = c

\* C7 (as stated): the text field ldquo Hello. rdquo yields the Document Hello
C7_HelloStripped ==
    (result # <<>> /\ args.dataset_type = "lambada") =>
        \A k \in 1..Len(files[1]) :
            files[1][k].text = HelloQuoted =>
                result.documents[1][k] = <<"H", "e", "l", "l", "o">>

\* C7 (amended): a lambada Document is the text field with curly double
\* quotes replaced by straight ones, then outer whitespace trimmed, then outer
\* periods trimmed: it holds no curly quote and neither starts nor ends with a
\* period; ldquo Hello. rdquo yields "Hello." (the period is inside the
\* quotes and stays), and the unquoted Hello. yields Hello.
C7_LambadaDocument ==
    (result # <<>> /\ args.dataset_type = "lambada") =>
        \A k \in 1..Len(files[1]) :
            LET doc == result.documents[1][k]
            IN  /\ ~HasChar(doc, "ldquo") /\ ~HasChar(doc, "rdquo")
                /\ doc # <<>> => (Head(doc) # "." /\ doc[Len(doc)] # ".")
                /\ files[1][k].text = HelloQuoted =>
                       doc = <<"\"", "H", "e", "l", "l", "o", ".", "\"">>
                /\ files[1][k].text = HelloPeriod =>
                       doc = <<"H", "e", "l", "l", "o">>

C7_Witness ==
    /\ result # <<>>
    /\ args.dataset_type = "lambada"
    /\ Len(files[1]) = 2
    /\ files[1][1].text = HelloQuoted
    /\ files[1][2].text = HelloPeriod
    /\ result.documents[1][2] = <<"H", "e", "l", "l", "o">>

(***************************************************************************)
(* __main__, openwebtext branch: shard file names and the summary line.    *)
(***************************************************************************)
DigitChar(d) == <<"0", "1", "2", "3", "4", "5", "6", "7", "8", "9">>[d + 1]

\* str(x) for an integer x >= 0
RECURSIVE str(_)
str(x) == IF x < 10 THEN <<DigitChar(x)>> ELSE str(x \div 10) \o <<DigitChar(x % 10)>>

\* s.rjust(width, fill)
RECURSIVE rjust(_, _, _)
rjust(s, width, fill) ==
    IF Len(s) >= width THEN s ELSE rjust(<<fill>> \o s, width, fill)

\* SUFFIX = len(str(args.file_partition - 1))
\* file_names = [output_file + str(x).rjust(SUFFIX, '0') for x in range(file_partition)]
FileNames(output_file, file_partition) ==
    LET SUFFIX == Len(str(file_partition - 1))
    IN  [x \in 1..file_partition |-> output_file \o rjust(str(x - 1), SUFFIX, "0")]

\* out_file = args.output_file; if args.file_partition > 1: out_file += '0'
SummaryPath(output_file, file_partition) ==
    IF file_partition > 1 THEN output_file \o <<"0">> ELSE output_file

OutputFiles == { <<"o", "u", "t">>, <<"o">>, <<"d", "/", "m", "r">> }

InitNames ==
    /\ args \in [dataset_type : {"openwebtext"}, output_file : OutputFiles,
                 file_partition : 1..MaxPartition]
    /\ files = <<>>
    /\ result = <<>>
    /\ string = <<>>
    /\ cleaned = <<>>
    /\ MainIdle

\* lines 277-279 on their own
NameShards ==
    /\ pc = "idle"
    /\ file_names = <<>>
    /\ file_names' = FileNames(args.output_file, args.file_partition)
    /\ UNCHANGED <<inputVars, cleanVars, result, pc, process_list, polled, proc,
                   writers, main_iter, transforms_count, summary>>

\* lines 294-297 on their own
PrintSummary ==
    /\ pc = "idle"
    /\ file_names # <<>>
    /\ summary = <<>>
    /\ summary' = <<SummaryPath(args.output_file, args.file_partition)>>
    /\ UNCHANGED <<inputVars, cleanVars, result, pc, file_names, process_list,
                   polled, proc, writers, main_iter, transforms_count>>

NextNames == NameShards \/ PrintSummary

SpecNames == InitNames /\ [][NextNames]_vars

\* the names the output-file naming rule prescribes
ExpectedNames(output_file, N) ==
    IF N = 1 THEN <<output_file>>
    ELSE [x \in 1..N |-> output_file \o rjust(str(x - 1), Len(str(N - 1)), "0")]

\* C4 (as stated): with file_partition = 1 the single shard file is named
\* exactly output_file; with file_partition = N > 1 the names are output_file
\* followed by the index zero-padded to width len(str(N-1)), all distinct.
C4_ShardNames ==
    file_names # <<>> =>
        /\ file_names = ExpectedNames(args.output_file, args.file_partition)
        /\ \A x, y \in 1..Len(file_names) : file_names[x] = file_names[y] => x = y

\* C6 (as stated): the summary line names a file that was produced, the
\* first shard file, for every file_partition >= 1.
C6_SummaryNamesFirstShard ==
    summary # <<>> => summary[1] = file_names[1]

(***************************************************************************)
(* The whole program: __main__ and the task_unit processes it starts.      *)
(*                                                                         *)
(* A Process is started by fork: file_iter, a generator the parent never   *)
(* advances, is copied into each child, so every task_unit iterates over   *)
(* its own copy (field it: how many paths that copy has yielded).          *)
(***************************************************************************)
batch_size == 1024

\* mindrecord_schema = {args.data_column_name: {"type": "int32", "shape": [-1]}}
mindrecord_schema ==
    [f \in {args.data_column_name} |-> [type |-> "int32", shape |-> <<-1>>]]

\* FileWriter(file_name=..., shard_num=...) followed by add_schema(schema, ...)
NewWriter(file_name, shard_num, schema) ==
    [file_name |-> file_name, shard_num |-> shard_num, schema |-> schema,
     log |-> <<"open", "add_schema">>, calls |-> <<>>, data |-> <<>>,
     committed |-> FALSE]

\* a Window lacking a field the schema declares makes write_raw_data fail
SchemaOk(wr, batch) ==
    \A k \in 1..Len(batch) : DOMAIN wr.schema \subseteq DOMAIN batch[k]

\* writer.write_raw_data(batch)
WriteRawData(wr, batch) ==
    [wr EXCEPT !.log = Append(@, "write_raw_data"),
               !.calls = Append(@, batch),
               !.data = IF SchemaOk(wr, batch) THEN @ \o batch ELSE @]

\* writer.commit()
Commit(wr) == [wr EXCEPT !.log = Append(@, "commit"), !.committed = TRUE]

SetWriter(id, wr) ==
    [k \in DOMAIN writers \cup {id} |-> IF k = id THEN wr ELSE writers[k]]

\* process_list[file] = p1 : a dict, modelled as (key, value) pairs in
\* insertion order
DictSet(dict, key, val) ==
    IF \E k \in 1..Len(dict) : dict[k].key = key
    THEN [k \in 1..Len(dict) |->
             IF dict[k].key = key THEN [key |-> key, val |-> val] ELSE dict[k]]
    ELSE Append(dict, [key |-> key, val |-> val])

\* process.is_alive()
is_alive(i) == proc[i].pc # "exited"

\* tokenize_openwebtext as a generator: advance over the files of this
\* process's iterator copy until one yields a Window or the copy is exhausted
RECURSIVE Advance(_)
Advance(g) ==
    IF g.pending # <<>> \/ g.it = Len(files) THEN g
    ELSE Advance([it |-> g.it + 1,
                  pending |-> OwtFileSamples(files[g.it + 1], args.seq_length,
                                             args.eot)])

Gen(i) == [it |-> proc[i].it, pending |-> proc[i].pending]

MainWikiFiles == { <<"a", "\n", "\n", "=">>, <<"a", " ", "a">> }

MainLambadaFiles == { <<[text |-> <<"H", ".">>], [text |-> <<>>]>>, <<>> }

MainOwtFiles == { <<>>, <<"a">>, <<"a", "\n", "\n", "a">> }

MainInputs(dataset_type) ==
    CASE dataset_type = "wiki"        -> { <<f>> : f \in MainWikiFiles }
      [] dataset_type = "lambada"     -> { <<f>> : f \in MainLambadaFiles }
      [] dataset_type = "openwebtext" -> SeqsUpTo(MainOwtFiles, MaxMainFiles)

ColumnNames == {"input_ids", "text"}

InitMain ==
    /\ args \in [dataset_type : DatasetTypes, output_file : {<<"o", "u", "t">>},
                 file_partition : 1..MaxWorkers, seq_length : {1, 2},
                 eot : {DefaultEot}, data_column_name : ColumnNames]
    /\ files \in MainInputs(args.dataset_type)
    /\ result = <<>>
    /\ string = <<>>
    /\ cleaned = <<>>
    /\ pc = "start"
    /\ file_names = <<>>
    /\ process_list = <<>>
    /\ polled = 0
    /\ proc = <<>>
    /\ writers = <<>>
    /\ main_iter = <<>>
    /\ transforms_count = 0
    /\ summary = <<>>

(* ------------------------ wiki / lambada branches ---------------------- *)

\* wiki_writer = FileWriter(...); wiki_writer.add_schema(...); the generator
\* is created (lambada alike)
Main_SingleOpen ==
    /\ pc = "start"
    /\ args.dataset_type \in {"wiki", "lambada"}
    /\ writers' = SetWriter(0, NewWriter(args.output_file, args.file_partition,
                                         mindrecord_schema))
    /\ main_iter' = IF args.dataset_type = "wiki"
                    THEN tokenize_wiki(files[1], args.seq_length, args.eot).samples
                    ELSE tokenize_lambada(files[1], args.seq_length, args.eot).samples
    /\ pc' = "single_write"
    /\ UNCHANGED <<inputVars, cleanVars, result, file_names, process_list, polled,
                   proc, transforms_count, summary>>

\* for x in tokenize_wiki(...): transforms_count += 1; write_raw_data([x])
Main_SingleWrite ==
    /\ pc = "single_write"
    /\ main_iter # <<>>
    /\ transforms_count' = transforms_count + 1
    /\ writers' = SetWriter(0, WriteRawData(writers[0], <<Head(main_iter)>>))
    /\ main_iter' = Tail(main_iter)
    /\ pc' = IF SchemaOk(writers[0], <<Head(main_iter)>>) THEN "single_write"
             ELSE "raised"
    /\ UNCHANGED <<inputVars, cleanVars, result, file_names, process_list, polled,
                   proc, summary>>

\* wiki_writer.commit(); print("Transformed {} records.")
Main_SingleCommit ==
    /\ pc = "single_write"
    /\ main_iter = <<>>
    /\ writers' = SetWriter(0, Commit(writers[0]))
    /\ pc' = "summary"
    /\ UNCHANGED <<inputVars, cleanVars, result, file_names, process_list, polled,
                   proc, main_iter, transforms_count, summary>>

(* --------------------------- openwebtext branch ------------------------ *)

\* SUFFIX, file_names, file_iter, process_list = {}
Main_FileNames ==
    /\ pc = "start"
    /\ args.dataset_type = "openwebtext"
    /\ file_names' = FileNames(args.output_file, args.file_partition)
    /\ pc' = "spawn"
    /\ UNCHANGED <<inputVars, cleanVars, result, process_list, polled, proc,
                   writers, main_iter, transforms_count, summary>>

\* p1 = Process(target=task_unit, args=(file_iter, ...)); p1.start();
\* process_list[file] = p1
Main_StartProcess ==
    /\ pc = "spawn"
    /\ Len(proc) < Len(file_names)
    /\ LET i == Len(proc) + 1
       IN  /\ proc' = Append(proc, [pc |-> "open", mindrecord_filename |-> file_names[i],
                                    it |-> 0, pending |-> <<>>, data_batch |-> <<>>,
                                    count |-> 0, printed |-> <<>>, exitcode |-> 0])
           /\ process_list' = DictSet(process_list, file_names[i], i)
           /\ pc' = IF i = Len(file_names) THEN "poll" ELSE "spawn"
    /\ UNCHANGED <<inputVars, cleanVars, result, file_names, polled, writers,
                   main_iter, transforms_count, summary>>

\* the loop without the is_alive() test
MainPollNoWait ==
    /\ pc = "poll"
    /\ polled < Len(process_list)
    /\ polled' = polled + 1
    /\ UNCHANGED <<inputVars, cleanVars, result, pc, file_names, process_list,
                   proc, writers, main_iter, transforms_count, summary>>

\* for process in process_list.values():
\*     while process.is_alive(): time.sleep(0.01)
\* (a sleep changes nothing; the step is leaving the while loop)
Main_Poll ==
    /\ pc = "poll"
    /\ polled < Len(process_list)
    /\ ~is_alive(process_list[polled + 1].val)
    /\ polled' = polled + 1
    /\ UNCHANGED <<inputVars, cleanVars, result, pc, file_names, process_list,
                   proc, writers, main_iter, transforms_count, summary>>

\* the for loop over process_list.values() is over
Main_PollDone ==
    /\ pc = "poll"
    /\ polled = Len(process_list)
    /\ pc' = "summary"
    /\ UNCHANGED <<inputVars, cleanVars, result, file_names, process_list, polled,
                   proc, writers, main_iter, transforms_count, summary>>

\* out_file = ...; print("Transform finished, output files refer: {}")
Main_Summary ==
    /\ pc = "summary"
    /\ summary' = <<SummaryPath(args.output_file, args.file_partition)>>
    /\ pc' = "done"
    /\ UNCHANGED <<inputVars, cleanVars, result, file_names, process_list, polled,
                   proc, writers, main_iter, transforms_count>>

(* -------------------------------- task_unit ---------------------------- *)

UnchangedByWorker ==
    UNCHANGED <<inputVars, cleanVars, result, pc, file_names, process_list,
                polled, main_iter, transforms_count, summary>>

\* writer = FileWriter(file_name=mindrecord_filename, shard_num=1)
\* writer.add_schema(schema, args.dataset_type); item_iter = ...; count = 0
W_Open(i) ==
    /\ proc[i].pc = "open"
    /\ writers' = SetWriter(i, NewWriter(proc[i].mindrecord_filename, 1,
                                         mindrecord_schema))
    /\ proc' = [proc EXCEPT ![i].pc = "loop"]
    /\ UnchangedByWorker

\* data_batch.append(next(item_iter)); count += 1, and, when that was the
\* batch_size-th append of the for loop, writer.write_raw_data(data_batch),
\* print(count) and the next data_batch = []
W_NextItem(i) ==
    /\ proc[i].pc = "loop"
    /\ Advance(Gen(i)).pending # <<>>
    /\ LET g     == Advance(Gen(i))
           batch == Append(proc[i].data_batch, Head(g.pending))
           count == proc[i].count + 1
           p     == [proc[i] EXCEPT !.it = g.it, !.pending = Tail(g.pending),
                                    !.count = count]
       IN  IF Len(batch) < batch_size
           THEN /\ proc' = [proc EXCEPT ![i] = [p EXCEPT !.data_batch = batch]]
                /\ UNCHANGED writers
           ELSE /\ writers' = SetWriter(i, WriteRawData(writers[i], batch))
                /\ proc' = [proc EXCEPT ![i] =
                              IF SchemaOk(writers[i], batch)
                              THEN [p EXCEPT !.data_batch = <<>>,
                                             !.printed = Append(@, count)]
                              ELSE [p EXCEPT !.data_batch = batch, !.pc = "exited",
                                             !.exitcode = 1]]
    /\ UnchangedByWorker

\* the except clause without the write of what is left
W_StopIterationDropsRest(i) ==
    /\ proc[i].pc = "loop"
    /\ Advance(Gen(i)).pending = <<>>
    /\ proc' = [proc EXCEPT ![i].it = Advance(Gen(i)).it, ![i].pc = "commit"]
    /\ UNCHANGED writers
    /\ UnchangedByWorker

\* next(item_iter) raises StopIteration: write what is left, print, break
W_StopIteration(i) ==
    /\ proc[i].pc = "loop"
    /\ Advance(Gen(i)).pending = <<>>
    /\ LET g     == Advance(Gen(i))
           batch == proc[i].data_batch
           p     == [proc[i] EXCEPT !.it = g.it]
       IN  IF batch = <<>>
           THEN /\ proc' = [proc EXCEPT ![i] = [p EXCEPT !.pc = "commit"]]
                /\ UNCHANGED writers
           ELSE /\ writers' = SetWriter(i, WriteRawData(writers[i], batch))
                /\ proc' = [proc EXCEPT ![i] =
                              IF SchemaOk(writers[i], batch)
                              THEN [p EXCEPT !.pc = "commit",
                                             !.printed = Append(@, p.count)]
                              ELSE [p EXCEPT !.pc = "exited", !.exitcode = 1]]
    /\ UnchangedByWorker

\* what a commit in a finally clause would do
W_NextRaisesThenCommits(i) ==
    /\ proc[i].pc = "loop"
    /\ proc[i].pending = <<>>
    /\ proc[i].it < Len(files)
    /\ proc' = [proc EXCEPT ![i].it = @ + 1, ![i].pc = "exited", ![i].exitcode = 1]
    /\ writers' = SetWriter(i, Commit(writers[i]))
    /\ UnchangedByWorker

\* next(item_iter) raises something else (the file cannot be read or decoded,
\* the tokenizer fails): only StopIteration is caught, the process dies
W_NextRaises(i) ==
    /\ proc[i].pc = "loop"
    /\ proc[i].pending = <<>>
    /\ proc[i].it < Len(files)
    /\ proc' = [proc EXCEPT ![i].it = @ + 1, ![i].pc = "exited", ![i].exitcode = 1]
    /\ UNCHANGED writers
    /\ UnchangedByWorker

\* writer.commit()
W_Commit(i) ==
    /\ proc[i].pc = "commit"
    /\ writers' = SetWriter(i, Commit(writers[i]))
    /\ proc' = [proc EXCEPT ![i].pc = "return"]
    /\ UnchangedByWorker

\* task_unit returns, the process exits
W_Exit(i) ==
    /\ proc[i].pc = "return"
    /\ proc' = [proc EXCEPT ![i].pc = "exited"]
    /\ UNCHANGED writers
    /\ UnchangedByWorker

\* one step of one of the started processes
Task_Open == \E i \in 1..Len(proc) : W_Open(i)

Task_NextItem == \E i \in 1..Len(proc) : W_NextItem(i)

Task_StopIteration == \E i \in 1..Len(proc) : W_StopIteration(i)

Task_NextRaises == \E i \in 1..Len(proc) : W_NextRaises(i)

Task_Commit == \E i \in 1..Len(proc) : W_Commit(i)

Task_Exit == \E i \in 1..Len(proc) : W_Exit(i)

NextMain ==
    \/ Main_SingleOpen
    \/ Main_SingleWrite
    \/ Main_SingleCommit
    \/ Main_FileNames
    \/ Main_StartProcess
    \/ Main_Poll
    \/ Main_PollDone
    \/ Main_Summary
    \/ Task_Open
    \/ Task_NextItem
    \/ Task_StopIteration
    \/ Task_NextRaises
    \/ Task_Commit
    \/ Task_Exit

SpecMain == InitMain /\ [][NextMain]_vars

\* the parent is a running process: it takes its next step when it has one
FairSpecMain ==
    SpecMain /\ WF_vars(Main_Poll) /\ WF_vars(Main_PollDone) /\ WF_vars(Main_Summary)

Workers == 1..Len(proc)

\* C3: a task_unit's writer goes open, add_schema, write_raw_data*, commit:
\* commit is the last call and happens at most once, only when the process's
\* Window stream is exhausted and every Window it took was written; a process
\* that returned has committed, a process that died has not.
C3_WriterLifecycle ==
    \A i \in Workers :
        IF proc[i].pc = "open" THEN i \notin DOMAIN writers
        ELSE LET log == writers[i].log
             IN  /\ Len(log) >= 2 /\ log[1] = "open" /\ log[2] = "add_schema"
                 /\ \A k \in 3..Len(log) :
                       \/ log[k] = "write_raw_data"
                       \/ k = Len(log) /\ log[k] = "commit"
                 /\ writers[i].committed <=> log[Len(log)] = "commit"
                 /\ writers[i].committed =>
                       /\ proc[i].it = Len(files)
                       /\ proc[i].pending = <<>>
                       /\ Len(writers[i].data) = proc[i].count
                 /\ writers[i].committed <=>
                       (proc[i].pc = "return" \/
                        (proc[i].pc = "exited" /\ proc[i].exitcode = 0))
                 /\ (proc[i].pc = "exited" /\ proc[i].exitcode # 0) =>
                       ~writers[i].committed

C3_Witness ==
    \E i, j \in Workers :
        /\ proc[i].pc = "exited" /\ proc[i].exitcode = 0
        /\ writers[i].committed
        /\ Len(writers[i].calls) >= 1
        /\ proc[j].pc = "exited" /\ proc[j].exitcode = 1
        /\ proc[j].it >= 1
        /\ ~writers[j].committed

\* the processes that pulled the f-th path of the glob
Pullers(f) == { i \in Workers : proc[i].it >= f }

AllReturned ==
    /\ Len(proc) = args.file_partition
    /\ \A i \in Workers : proc[i].pc = "exited" /\ proc[i].exitcode = 0

\* C5 (as stated): the N processes share one iterator, so every input file
\* path is pulled and tokenized by exactly one process: never by two, and
\* by one once all processes have returned.
C5_EachFileOnce ==
    args.dataset_type = "openwebtext" =>
        \A f \in 1..Len(files) :
            /\ Cardinality(Pullers(f)) <= 1
            /\ AllReturned => Cardinality(Pullers(f)) = 1

\* C9 (as stated): for every data_column_name, every Window handed to
\* write_raw_data carries its ids under the field the writer's schema
\* declares, so no write hits a schema mismatch.
C9_NoSchemaMismatch ==
    \A id \in DOMAIN writers :
        \A c \in 1..Len(writers[id].calls) :
            SchemaOk(writers[id], writers[id].calls[c])

AllExited ==
    /\ args.dataset_type = "openwebtext"
    /\ Len(proc) = args.file_partition
    /\ \A i \in Workers : ~is_alive(i)

Declared == args.dataset_type = "openwebtext" /\ summary # <<>>

\* C10: in the openwebtext path the parent prints the summary line only
\* after every one of the N processes has exited, and once all have exited
\* (after commit or abnormally) it eventually prints it.
C10_Completion == [](Declared => AllExited) /\ (AllExited ~> Declared)

C10_Witness ==
    /\ Declared
    /\ \E i, j \in Workers :
          /\ proc[i].exitcode = 0 /\ writers[i].committed
          /\ proc[j].exitcode = 1 /\ ~writers[j].committed

(***************************************************************************)
(* The batch loop of task_unit at full size: one process, one Window per   *)
(* input file (seq_length 2, each file the single character a), and file   *)
(* counts around the multiples of batch_size.                              *)
(***************************************************************************)
BatchRunWindows ==
    { w \in { k * batch_size + d : k \in 0..MaxBatches, d \in {-1, 0, 1} } : w >= 0 }

InitBatch ==
    /\ args \in [dataset_type : {"openwebtext"}, output_file : {<<"o", "u", "t">>},
                 file_partition : {1}, seq_length : {2}, eot : {DefaultEot},
                 data_column_name : ColumnNames]
    /\ files \in { [k \in 1..w |-> <<"a">>] : w \in BatchRunWindows }
    /\ result = <<>>
    /\ string = <<>>
    /\ cleaned = <<>>
    /\ pc = "start"
    /\ file_names = <<>>
    /\ process_list = <<>>
    /\ polled = 0
    /\ proc = <<>>
    /\ writers = <<>>
    /\ main_iter = <<>>
    /\ transforms_count = 0
    /\ summary = <<>>

NextBatch ==
    \/ Main_FileNames
    \/ Main_StartProcess
    \/ Main_Poll
    \/ Main_PollDone
    \/ Main_Summary
    \/ Task_Open
    \/ Task_NextItem
    \/ Task_StopIteration
    \/ Task_NextRaises
    \/ Task_Commit
    \/ Task_Exit

SpecBatch == InitBatch /\ [][NextBatch]_vars

\* f[lo] \o ... \o f[hi], halving the range
RECURSIVE ConcatRange(_, _, _)
ConcatRange(f, lo, hi) ==
    IF lo > hi THEN <<>>
    ELSE IF lo = hi THEN f[lo]
    ELSE LET mid == (lo + hi) \div 2
         IN  ConcatRange(f, lo, mid) \o ConcatRange(f, mid + 1, hi)

\* the Window sequence the openwebtext driver yields for the input files:
\* the Windows of each file, in file order
DriverWindows ==
    ConcatRange([k \in 1..Len(files) |->
                    OwtFileSamples(files[k], args.seq_length, args.eot)],
                1, Len(files))

\* the process left the batch loop through StopIteration
StreamExhausted(i) ==
    \/ proc[i].pc \in {"commit", "return"}
    \/ proc[i].pc = "exited" /\ proc[i].exitcode = 0

====
